---- MODULE Spec2Model ----
(***************************************************************************)
(* Model of src/src/main.py: the NewsAPI -> Redshift batch job.            *)
(*                                                                         *)
(* A behaviour is a series of Python processes.  A process either runs     *)
(* the script (`__main__`: fetch_newsapi_data, then                        *)
(* write_news_to_redshift) or imports the module and calls                 *)
(* write_news_to_redshift on a batch.  The database outlives the           *)
(* processes.  Python strings that the code converts (the publishedAt      *)
(* text, the decimal text of the id) are sequences of one-character        *)
(* strings; 64-bit hash values are four 16-bit limbs, most significant     *)
(* first, in two's complement.                                             *)
(***************************************************************************)
EXTENDS Integers, Sequences, FiniteSets, TLC

\* ---------------------------------------------------------------- bounds

\* Longest article list handed to write_news_to_redshift.
MaxBatch == 2

\* Number of Python processes in a behaviour.
MaxRuns == 2

\* ------------------------------------------------------------ Python data

\* Python's None.
None == "<None>"

\* One 16-bit limb of a machine word.
Limb == 65536

\* str(n) for one decimal digit.
DigitChar(d) ==
    CASE d = 0 -> "0" [] d = 1 -> "1" [] d = 2 -> "2" [] d = 3 -> "3"
      [] d = 4 -> "4" [] d = 5 -> "5" [] d = 6 -> "6" [] d = 7 -> "7"
      [] d = 8 -> "8" [] d = 9 -> "9"

Digits == {"0", "1", "2", "3", "4", "5", "6", "7", "8", "9"}

\* int(c) for one decimal digit character.
DigitVal(c) ==
    CASE c = "0" -> 0 [] c = "1" -> 1 [] c = "2" -> 2 [] c = "3" -> 3
      [] c = "4" -> 4 [] c = "5" -> 5 [] c = "6" -> 6 [] c = "7" -> 7
      [] c = "8" -> 8 [] c = "9" -> 9

\* `hash(x) & 0xFFFFFFFF`: the low 32 bits of the 64-bit hash, i.e. its two
\* least significant limbs <<hi16, lo16>>.
Mask32(h) == <<h[3], h[4]>>

\* str(n) of a 32-bit value <<hi16, lo16>>: its decimal digits, by long
\* division by ten.
RECURSIVE IntToStr(_)
IntToStr(w) ==
    LET q1  == w[1] \div 10
        r1  == w[1] % 10
        mid == r1 * Limb + w[2]
        q2  == mid \div 10
        d   == mid % 10
    IN  IF q1 = 0 /\ q2 = 0
        THEN <<DigitChar(d)>>
        ELSE Append(IntToStr(<<q1, q2>>), DigitChar(d))

\* ------------------------------------------------- datetime.strptime

\* The format "%Y-%m-%dT%H:%M:%SZ" as directives and literals.
PublishedAtFormat ==
    <<"%Y", "-", "%m", "-", "%d", "T", "%H", ":", "%M", ":", "%S", "Z">>

Directives == {"%Y", "%m", "%d", "%H", "%M", "%S"}

\* Widest digit run a directive takes.
DirectiveWidth(d) == IF d = "%Y" THEN 4 ELSE 2

\* Number of digit characters of s from position p on, at most w.
RECURSIVE DigitRun(_, _, _)
DigitRun(s, p, w) ==
    IF w = 0 \/ p > Len(s) \/ s[p] \notin Digits
    THEN 0
    ELSE 1 + DigitRun(s, p + 1, w - 1)

\* Value of the n digit characters of s that start at p.
RECURSIVE DigitsValue(_, _, _)
DigitsValue(s, p, n) ==
    IF n = 0 THEN 0
    ELSE DigitsValue(s, p, n - 1) * 10 + DigitVal(s[p + n - 1])

IsLeap(y) == (y % 4 = 0 /\ y % 100 # 0) \/ y % 400 = 0

DaysInMonth(y, m) ==
    IF m = 2 THEN (IF IsLeap(y) THEN 29 ELSE 28)
    ELSE IF m \in {4, 6, 9, 11} THEN 30 ELSE 31

\* Whether the fields read form a datetime.
ValidDateTime(f) ==
    /\ f["%Y"] >= 1
    /\ f["%m"] \in 1..12
    /\ f["%d"] >= 1 /\ f["%d"] <= DaysInMonth(f["%Y"], f["%m"])
    /\ f["%H"] \in 0..23
    /\ f["%M"] \in 0..59
    /\ f["%S"] \in 0..61

\* A call's result: a value, or the exception it raises.
Ok(v) == [ok |-> TRUE, val |-> v]
Raise(e) == [ok |-> FALSE, exc |-> e]

\* Match s from position p against the format from item i on; acc holds the
\* fields read so far.
RECURSIVE MatchFormat(_, _, _, _)
MatchFormat(s, p, i, acc) ==
    IF i > Len(PublishedAtFormat)
    THEN (IF p = Len(s) + 1 THEN Ok(acc) ELSE Raise("ValueError"))
    ELSE LET item == PublishedAtFormat[i]
         IN  IF item \in Directives
             THEN LET n == DigitRun(s, p, DirectiveWidth(item))
                  IN  IF n = 0 \/ (item = "%Y" /\ n # 4)
                      THEN Raise("ValueError")
                      ELSE MatchFormat(s, p + n, i + 1,
                               [acc EXCEPT ![item] = DigitsValue(s, p, n)])
             ELSE IF p <= Len(s) /\ s[p] = item
                  THEN MatchFormat(s, p + 1, i + 1, acc)
                  ELSE Raise("ValueError")

\* datetime.strptime(s, "%Y-%m-%dT%H:%M:%SZ"): a datetime, or ValueError for
\* a string that does not match the format or names no date.
strptime(s) ==
    LET m == MatchFormat(s, 1, 1, [d \in Directives |-> 0])
    IN  IF ~m.ok THEN m
        ELSE IF ~ValidDateTime(m.val) THEN Raise("ValueError")
        ELSE Ok([year |-> m.val["%Y"], month |-> m.val["%m"],
                 day |-> m.val["%d"], hour |-> m.val["%H"],
                 minute |-> m.val["%M"], second |-> m.val["%S"]])

\* ------------------------------------------------------------- dicts

\* d[k]: the value, or KeyError.
GetItem(d, k) == IF k \in DOMAIN d THEN Ok(d[k]) ELSE Raise("KeyError")

\* d.get(k): the value, or None.
Get(d, k) == IF k \in DOMAIN d THEN d[k] ELSE None

\* ------------------------------------------------------------ articles

Urls == {"https://a", "https://b"}

\* "2024-01-01T00:00:00Z"
GoodTimestamp ==
    <<"2", "0", "2", "4", "-", "0", "1", "-", "0", "1", "T",
      "0", "0", ":", "0", "0", ":", "0", "0", "Z">>

\* "2024-01-01T00:00:00.5Z": ISO-8601, but not the loader's format.
FractionalTimestamp ==
    <<"2", "0", "2", "4", "-", "0", "1", "-", "0", "1", "T",
      "0", "0", ":", "0", "0", ":", "0", "0", ".", "5", "Z">>

\* An article with every required field.
WellFormedArticle(u, t) ==
    [title |-> t, url |-> u, publishedAt |-> GoodTimestamp,
     source |-> [name |-> "S"], description |-> "D"]

\* Two articles with distinct URLs, and a second article under the first URL.
WellFormed ==
    {WellFormedArticle("https://a", "T1"), WellFormedArticle("https://a", "T2"),
     WellFormedArticle("https://b", "T1")}

BadTimestampArticle ==
    [title |-> "T1", url |-> "https://b", publishedAt |-> FractionalTimestamp,
     source |-> [name |-> "S"], description |-> "D"]

NoSourceArticle ==
    [title |-> "T1", url |-> "https://a", publishedAt |-> GoodTimestamp,
     description |-> "D"]

Articles == WellFormed \cup {BadTimestampArticle, NoSourceArticle}

\* The article lists a caller may pass.
Batches == UNION {[1..n -> Articles] : n \in 0..MaxBatch}

\* ---------------------------------------------------------------- hash

\* 64-bit values hash() may return: two that differ only above bit 31 (one of
\* them negative), and one that differs below.
HashValues == {<<0, 0, 0, 7>>, <<65535, 65535, 0, 7>>, <<0, 1, 2, 3>>}

\* str hashing is keyed by a secret drawn when the interpreter starts: within
\* a process hash() is a function of the string, and which function is the
\* process's draw.  Three draws: one, the same with the two values swapped,
\* and one whose values for the two URLs agree in their low 32 bits.
HashFunctions ==
    {h \in [Urls -> HashValues] :
        <<h["https://a"], h["https://b"]>> \in
            {<<<<0, 0, 0, 7>>, <<0, 1, 2, 3>>>>,
             <<<<0, 1, 2, 3>>, <<0, 0, 0, 7>>>>,
             <<<<0, 0, 0, 7>>, <<65535, 65535, 0, 7>>>>}}

\* str(hash(url) & 0xFFFFFFFF)
article_id(h, url) == IntToStr(Mask32(h[url]))

\* ------------------------------------------------------------- records

\* One iteration of the loop: the tuple appended to records, or the
\* exception the iteration raises.
Record(h, article) ==
    LET url == GetItem(article, "url")
        pub == GetItem(article, "publishedAt")
        ts  == strptime(pub.val)
        src == GetItem(article, "source")
    IN  IF ~url.ok THEN url
        ELSE IF ~pub.ok THEN pub
        ELSE IF ~ts.ok THEN ts
        ELSE IF ~GetItem(article, "title").ok THEN Raise("KeyError")
        ELSE IF ~src.ok THEN src
        ELSE IF ~GetItem(src.val, "name").ok THEN Raise("KeyError")
        ELSE Ok([id |-> article_id(h, url.val),
                 title |-> article.title,
                 author |-> Get(article, "author"),
                 source_name |-> src.val.name,
                 published_at |-> ts.val,
                 url |-> url.val,
                 content |-> Get(article, "content"),
                 description |-> Get(article, "description")])

\* The loop with per-record isolation: a record that raises is skipped.
RECURSIVE BuildRecordsSkipping(_, _)
BuildRecordsSkipping(h, as) ==
    IF as = <<>> THEN Ok(<<>>)
    ELSE LET front == BuildRecordsSkipping(h, SubSeq(as, 1, Len(as) - 1))
             last  == Record(h, as[Len(as)])
         IN  IF ~last.ok THEN front
             ELSE Ok(Append(front.val, last.val))

\* The loop with `records = []` inside it: only the last record is kept.
BuildRecordsLastOnly(h, as) ==
    IF as = <<>> THEN Ok(<<>>)
    ELSE LET last == Record(h, as[Len(as)])
         IN  IF ~last.ok THEN last ELSE Ok(<<last.val>>)

\* records after the loop over articles, or the first exception raised.
RECURSIVE BuildRecords(_, _)
BuildRecords(h, as) ==
    IF as = <<>> THEN Ok(<<>>)
    ELSE LET front == BuildRecords(h, SubSeq(as, 1, Len(as) - 1))
             last  == Record(h, as[Len(as)])
         IN  IF ~front.ok THEN front
             ELSE IF ~last.ok THEN last
             ELSE Ok(Append(front.val, last.val))

\* ------------------------------------------------------------ database

\* The database before any run: no news_articles table.
EmptyDb == [exists |-> FALSE, rows |-> {}]

\* CREATE TABLE IF NOT EXISTS news_articles (... id VARCHAR(255) PRIMARY KEY ...)
CreateTableIfNotExists(t) == [t EXCEPT !.exists = TRUE]

\* The stored row: the record's columns and inserted_at, which defaults to
\* CURRENT_TIMESTAMP.
Row(rec, now) ==
    [id |-> rec.id, title |-> rec.title, author |-> rec.author,
     source_name |-> rec.source_name, published_at |-> rec.published_at,
     url |-> rec.url, content |-> rec.content,
     description |-> rec.description, inserted_at |-> now]

\* INSERT ... ON CONFLICT (id) DO UPDATE: the new row replaces the old one.
InsertOnConflictDoUpdate(t, rec, now) ==
    [t EXCEPT !.rows = {r \in @ : r.id # rec.id} \cup {Row(rec, now)}]

\* INSERT ... ON CONFLICT (id) DO NOTHING
InsertOnConflictDoNothing(t, rec, now) ==
    IF \E r \in t.rows : r.id = rec.id
    THEN t
    ELSE [t EXCEPT !.rows = @ \cup {Row(rec, now)}]

\* cursor.executemany(insert_query, recs): one INSERT per record, in order.
RECURSIVE executemany(_, _, _)
executemany(t, recs, now) ==
    IF recs = <<>> THEN t
    ELSE InsertOnConflictDoNothing(
             executemany(t, SubSeq(recs, 1, Len(recs) - 1), now),
             recs[Len(recs)], now)

\* ------------------------------------------------------------- fetcher

\* A Python str value, as the pieces concatenated into it.
PyStr(pieces) == [type |-> "str", v |-> pieces]

\* The builtin `str`: a type object, not a string.
BuiltinStr == [type |-> "type", v |-> <<"str">>]

\* a + b for a str a: the concatenation, or TypeError when b is no str.
PyAdd(a, b) ==
    IF a.type = "str" /\ b.type = "str"
    THEN Ok(PyStr(a.v \o b.v))
    ELSE Raise("TypeError")

NEWSAPI_KEY == "14411238a52d4395b1f5a73c0ab7dfaa"

\* What the HTTP exchange would give: a transport failure, a non-2xx status,
\* or a JSON body.
Responses ==
    {[kind |-> "connection_error"],
     [kind |-> "http_error"],
     [kind |-> "json", body |-> [status |-> "error", message |-> "m"]],
     [kind |-> "json", body |-> [status |-> "ok"]],
     [kind |-> "json", body |-> [status |-> "ok", articles |-> <<>>]],
     [kind |-> "json", body |-> [status |-> "ok",
         articles |-> <<WellFormedArticle("https://a", "T1")>>]]}

Msg(m) == [msg |-> m]

\* "https://newsapi.org/v2/" + str + "?country=us&apiKey=" + api_key
RequestUrl(api_key) ==
    LET s1 == PyAdd(PyStr(<<"https://newsapi.org/v2/">>), BuiltinStr)
        s2 == PyAdd(s1.val, PyStr(<<"?country=us&apiKey=">>))
    IN  IF ~s1.ok THEN s1
        ELSE IF ~s2.ok THEN s2
        ELSE PyAdd(s2.val, PyStr(<<api_key>>))

\* The try block of fetch_newsapi_data on a response: what the call returns
\* or raises, and what it prints.  Only requests.exceptions.RequestException
\* is caught.
FetchTry(resp) ==
    IF resp.kind \in {"connection_error", "http_error"}
    THEN [res |-> Ok(<<>>), log |-> <<Msg("Failed to fetch NewsAPI data")>>]
    ELSE IF ~GetItem(resp.body, "status").ok
    THEN [res |-> Raise("KeyError"), log |-> <<>>]
    ELSE IF resp.body.status # "ok"
    THEN [res |-> Raise("ValueError"), log |-> <<>>]
    ELSE [res |-> Ok(IF "articles" \in DOMAIN resp.body
                     THEN resp.body.articles ELSE <<>>),
          log |-> <<>>]

\* fetch_newsapi_data(api_key, ...) when the exchange would give resp.
fetch_newsapi_data(api_key, resp) ==
    LET url == RequestUrl(api_key)
    IN  IF ~url.ok
        THEN [res |-> url, log |-> <<>>]
        ELSE FetchTry(resp)

\* --------------------------------------------------------------- state

VARIABLES
    run,          \* number of Python processes started so far
    pc,           \* where the running process is: "done" when its call has
                  \* returned or raised, "exited" when no process runs
    entry,        \* "script" (__main__) or "call" (write_news_to_redshift)
    response,     \* what the NewsAPI exchange of this process would give
    hashfn,       \* this process's keyed str hash
    articles,     \* write_news_to_redshift's argument
    conn,         \* the local `conn`: "unbound", "open" or "closed"
    records,      \* the local `records`
    txn,          \* the table as the open session's transaction sees it
    db,           \* the committed table
    db0,          \* db when this process started
    log,          \* what this process printed
    exc,          \* the exception in flight, or raised to the caller; "none"
    path,         \* loader states this call went through
    failedAt,     \* the step of the try block that raised, or "none"
    prevArticles  \* history (SpecRecorded only): the batch the previous
                  \* process committed, or <<>>

vars == <<run, pc, entry, response, hashfn, articles, conn, records, txn, db,
          db0, log, exc, path, failedAt, prevArticles>>

NoResponse == [kind |-> "none"]

\* hashfn while no process runs.
NoHash == [u \in Urls |-> <<0, 0, 0, 0>>]

Init ==
    /\ run = 0
    /\ pc = "exited"
    /\ entry = "none"
    /\ response = NoResponse
    /\ hashfn = NoHash
    /\ articles = <<>>
    /\ conn = "unbound"
    /\ records = <<>>
    /\ txn = EmptyDb
    /\ db = EmptyDb
    /\ db0 = EmptyDb
    /\ log = <<>>
    /\ exc = "none"
    /\ path = <<>>
    /\ failedAt = "none"
    /\ prevArticles = <<>>

\* A new interpreter starts: fresh locals, a fresh hash key.
StartProcess ==
    /\ pc = "exited"
    /\ run < MaxRuns
    /\ run' = run + 1
    /\ hashfn' \in HashFunctions
    /\ conn' = "unbound"
    /\ records' = <<>>
    /\ txn' = db
    /\ db0' = db
    /\ log' = <<>>
    /\ exc' = "none"
    /\ path' = <<>>
    /\ failedAt' = "none"
    /\ UNCHANGED <<db, prevArticles>>

\* python main.py
RunScript ==
    /\ StartProcess
    /\ entry' = "script"
    /\ response' \in Responses
    /\ articles' = <<>>
    /\ pc' = "fetch"

\* import main; main.write_news_to_redshift(batch, config)
CallLoader ==
    /\ StartProcess
    /\ entry' = "call"
    /\ response' = NoResponse
    /\ articles' \in Batches
    /\ pc' = "write"

\* articles = fetch_newsapi_data(NEWSAPI_KEY, query="AI")
Fetch ==
    /\ pc = "fetch"
    /\ LET r == fetch_newsapi_data(NEWSAPI_KEY, response)
       IN  /\ log' = log \o r.log
           /\ IF r.res.ok
              THEN /\ articles' = r.res.val
                   /\ pc' = "write"
                   /\ exc' = exc
              ELSE /\ articles' = articles
                   /\ pc' = "done"
                   /\ exc' = r.res.exc
    /\ UNCHANGED <<run, entry, response, hashfn, conn, records, txn, db, db0,
                   path, failedAt, prevArticles>>

\* ---------------------------------------------- write_news_to_redshift

\* if not articles: print("No articles to write."); return
Write ==
    /\ pc = "write"
    /\ IF articles = <<>>
       THEN /\ log' = Append(log, Msg("No articles to write."))
            /\ pc' = "done"
            /\ path' = path
       ELSE /\ log' = log
            /\ pc' = "connect"
            /\ path' = Append(path, "IDLE")
    /\ UNCHANGED <<run, entry, response, hashfn, articles, conn, records, txn,
                   db, db0, exc, failedAt, prevArticles>>

\* A statement of the try block raises: control goes to the except clause.
Fail(step) ==
    /\ failedAt' = step
    /\ pc' = "except"

\* conn = psycopg2.connect(...); cursor = conn.cursor()
\* The session starts with autocommit off: it sees the committed table.
ConnectOk ==
    /\ pc = "connect"
    /\ conn' = "open"
    /\ txn' = db
    /\ path' = Append(path, "CONNECTED")
    /\ pc' = "create_table"
    /\ UNCHANGED <<run, entry, response, hashfn, articles, records, db, db0,
                   log, exc, failedAt, prevArticles>>

\* psycopg2.connect raises: `conn` is never bound.
ConnectFails ==
    /\ pc = "connect"
    /\ Fail("connect")
    /\ UNCHANGED <<run, entry, response, hashfn, articles, conn, records, txn,
                   db, db0, log, exc, path, prevArticles>>

\* cursor.execute(create_table_query)
CreateTableOk ==
    /\ pc = "create_table"
    /\ txn' = CreateTableIfNotExists(txn)
    /\ path' = Append(path, "TABLE_ENSURED")
    /\ pc' = "build_records"
    /\ UNCHANGED <<run, entry, response, hashfn, articles, conn, records, db,
                   db0, log, exc, failedAt, prevArticles>>

CreateTableFails ==
    /\ pc = "create_table"
    /\ Fail("create_table")
    /\ UNCHANGED <<run, entry, response, hashfn, articles, conn, records, txn,
                   db, db0, log, exc, path, prevArticles>>

\* records = []; for article in articles: ... records.append((...))
BuildRecordsStep ==
    /\ pc = "build_records"
    /\ LET r == BuildRecords(hashfn, articles)
       IN  IF r.ok
           THEN /\ records' = r.val
                /\ pc' = "executemany"
                /\ failedAt' = failedAt
           ELSE /\ records' = records
                /\ Fail("build_records")
    /\ UNCHANGED <<run, entry, response, hashfn, articles, conn, txn, db, db0,
                   log, exc, path, prevArticles>>

\* cursor.executemany(insert_query, records)
ExecuteManyOk ==
    /\ pc = "executemany"
    /\ txn' = executemany(txn, records, run)
    /\ path' = Append(path, "ROWS_QUEUED")
    /\ pc' = "commit"
    /\ UNCHANGED <<run, entry, response, hashfn, articles, conn, records, db,
                   db0, log, exc, failedAt, prevArticles>>

\* An INSERT raises after the first k records went in.
ExecuteManyFails ==
    /\ pc = "executemany"
    /\ \E k \in 0..(Len(records) - 1) :
           txn' = executemany(txn, SubSeq(records, 1, k), run)
    /\ Fail("executemany")
    /\ UNCHANGED <<run, entry, response, hashfn, articles, conn, records, db,
                   db0, log, exc, path, prevArticles>>

\* conn.commit(); print(f"Successfully inserted {len(records)} articles.")
CommitOk ==
    /\ pc = "commit"
    /\ db' = txn
    /\ log' = Append(log, [msg |-> "Successfully inserted articles",
                           count |-> Len(records)])
    /\ path' = Append(path, "COMMITTED")
    /\ pc' = "finally"
    /\ UNCHANGED <<run, entry, response, hashfn, articles, conn, records, txn,
                   db0, exc, failedAt, prevArticles>>

CommitFails ==
    /\ pc = "commit"
    /\ Fail("commit")
    /\ UNCHANGED <<run, entry, response, hashfn, articles, conn, records, txn,
                   db, db0, log, exc, path, prevArticles>>

\* The session's view after conn.rollback(): the committed table.
Rollback(committed, t) == committed

\* except Exception as e: print(f"Redshift error: {e}"); conn.rollback()
\* with `conn` unbound, naming it raises UnboundLocalError.
ExceptUnbound ==
    /\ pc = "except"
    /\ conn = "unbound"
    /\ log' = Append(log, Msg("Redshift error"))
    /\ exc' = "UnboundLocalError"
    /\ pc' = "finally"
    /\ UNCHANGED <<run, entry, response, hashfn, articles, conn, records, txn,
                   db, db0, path, failedAt, prevArticles>>

ExceptRollbackOk ==
    /\ pc = "except"
    /\ conn = "open"
    /\ log' = Append(log, Msg("Redshift error"))
    /\ txn' = Rollback(db, txn)
    /\ path' = Append(path, "ROLLED_BACK")
    /\ pc' = "finally"
    /\ UNCHANGED <<run, entry, response, hashfn, articles, conn, records, db,
                   db0, exc, failedAt, prevArticles>>

\* conn.rollback() itself raises (the connection dropped).
ExceptRollbackFails ==
    /\ pc = "except"
    /\ conn = "open"
    /\ log' = Append(log, Msg("Redshift error"))
    /\ exc' = "OperationalError"
    /\ pc' = "finally"
    /\ UNCHANGED <<run, entry, response, hashfn, articles, conn, records, txn,
                   db, db0, path, failedAt, prevArticles>>

\* `conn` when a close is left to the end of the try body: an exception in
\* flight skips it.
ConnAfterCloseInTry(c, e) ==
    IF c = "open" /\ e = "none" THEN "closed" ELSE c

\* `conn` after `finally: if conn: conn.close()`, with exception e in flight.
ConnAfterFinally(c, e) ==
    IF c = "open" THEN "closed" ELSE c

\* finally: if conn: conn.close()
\* with `conn` unbound the test itself raises UnboundLocalError; otherwise the
\* connection closes, the server drops what the session did not commit, and
\* an exception in flight goes on to the caller.
Finally ==
    /\ pc = "finally"
    /\ conn' = ConnAfterFinally(conn, exc)
    /\ exc' = IF conn = "unbound" THEN "UnboundLocalError" ELSE exc
    /\ path' = IF conn' = "closed" THEN Append(path, "CLOSED") ELSE path
    /\ txn' = IF conn' = "closed" THEN db ELSE txn
    /\ pc' = "done"
    /\ UNCHANGED <<run, entry, response, hashfn, articles, records, db, db0,
                   log, failedAt, prevArticles>>

\* The interpreter exits: its locals are gone, the database stays.
ProcessExit ==
    /\ pc = "done"
    /\ pc' = "exited"
    /\ entry' = "none"
    /\ response' = NoResponse
    /\ hashfn' = NoHash
    /\ articles' = <<>>
    /\ conn' = "unbound"
    /\ records' = <<>>
    /\ txn' = db
    /\ db0' = db
    /\ log' = <<>>
    /\ exc' = "none"
    /\ path' = <<>>
    /\ failedAt' = "none"
    /\ UNCHANGED <<run, db>>

Exit ==
    /\ ProcessExit
    /\ prevArticles' = <<>>

\* Exit, with the batch the process committed kept as history.
ExitRecorded ==
    /\ ProcessExit
    /\ prevArticles' = IF "COMMITTED" \in {path[i] : i \in 1..Len(path)}
                       THEN articles ELSE <<>>

Step ==
    \/ RunScript
    \/ CallLoader
    \/ Fetch
    \/ Write
    \/ ConnectOk
    \/ ConnectFails
    \/ CreateTableOk
    \/ CreateTableFails
    \/ BuildRecordsStep
    \/ ExecuteManyOk
    \/ ExecuteManyFails
    \/ CommitOk
    \/ CommitFails
    \/ ExceptUnbound
    \/ ExceptRollbackOk
    \/ ExceptRollbackFails
    \/ Finally

NextRecorded ==
    \/ Step
    \/ ExitRecorded

\* Spec with prevArticles recorded across processes.
SpecRecorded == Init /\ [][NextRecorded]_vars

Next ==
    \/ RunScript
    \/ CallLoader
    \/ Fetch
    \/ Write
    \/ ConnectOk
    \/ ConnectFails
    \/ CreateTableOk
    \/ CreateTableFails
    \/ BuildRecordsStep
    \/ ExecuteManyOk
    \/ ExecuteManyFails
    \/ CommitOk
    \/ CommitFails
    \/ ExceptUnbound
    \/ ExceptRollbackOk
    \/ ExceptRollbackFails
    \/ Finally
    \/ Exit

Spec == Init /\ [][Next]_vars

\* -------------------------------------------------------------- claims

InPath(st) == \E i \in 1..Len(path) : path[i] = st

Committed == InPath("COMMITTED")

Logged(m) == \E i \in 1..Len(log) : log[i] = m

\* The script's fetch_newsapi_data call raised: the process ended with an
\* exception and the loader never got as far as its try block.
FetchRaised ==
    entry = "script" /\ pc = "done" /\ exc # "none" /\ path = <<>>

\* Responses on which the Fetcher is to yield an empty sequence.
FailedResponses ==
    {r \in Responses : r.kind # "json" \/ r.body.status # "ok"}

EmptyResponses ==
    FailedResponses \cup
        {r \in Responses : r.kind = "json" /\ r.body.status = "ok"
                           /\ ("articles" \notin DOMAIN r.body
                               \/ r.body.articles = <<>>)}

\* C1: fetch_newsapi_data never raises to its caller; on a network failure,
\* a non-2xx status or an API status other than "ok" it logs a message and
\* returns an empty sequence.
C1_FetchNeverRaises ==
    /\ ~FetchRaised
    /\ (entry = "script" /\ pc \notin {"fetch", "exited"}
            /\ response \in FailedResponses)
        => (articles = <<>> /\ log # <<>>)

\* Ids the batch's articles derive in this process.
BatchIds ==
    {article_id(hashfn, articles[i].url) :
        i \in {k \in 1..Len(articles) : "url" \in DOMAIN articles[k]}}

StoredIds == {r.id : r \in db.rows}

\* C2: the load is all-or-nothing.  Once a step of the try block has failed
\* the committed table is what it was when the call began, and when the call
\* is over the session's uncommitted work is gone; in no state does the table
\* hold new rows while an article of the batch is without a row.
C2_AllOrNothing ==
    /\ failedAt # "none" => db = db0
    /\ (pc = "done" /\ failedAt # "none") => txn = db
    /\ db.rows # db0.rows => BatchIds \subseteq StoredIds

\* A batch whose first article is well-formed and whose second does not parse
\* was rolled back, and nothing of it is stored.
C2_Witness ==
    /\ pc = "done"
    /\ failedAt = "build_records"
    /\ Len(articles) = 2
    /\ Record(hashfn, articles[1]).ok
    /\ articles[2] = BadTimestampArticle
    /\ InPath("ROLLED_BACK")
    /\ db = db0

\* C3: when the connection cannot be opened, write_news_to_redshift logs the
\* error and returns without raising; no rollback, commit or close happens.
C3_ConnectFailureReported ==
    (pc = "done" /\ failedAt = "connect")
        => /\ exc = "none"
           /\ Logged(Msg("Redshift error"))
           /\ path = <<"IDLE">>
           /\ db = db0

\* C4: a connection the call opened is closed when control leaves the call,
\* on every path.
C4_ConnectionClosed ==
    pc \in {"done", "exited"} => conn # "open"

\* The rollback itself failed, and the connection is closed all the same.
C4_Witness ==
    /\ pc = "done"
    /\ failedAt # "none"
    /\ exc = "OperationalError"
    /\ ~InPath("ROLLED_BACK")
    /\ conn = "closed"

\* C5: in a run of the script in which the Fetcher is to yield an empty
\* sequence, no connection is attempted, the table is unchanged, and the run
\* logs that there is nothing to write.
C5_EmptyFetchOnlyLogs ==
    (entry = "script" /\ pc = "done" /\ response \in EmptyResponses)
        => /\ conn = "unbound"
           /\ path = <<>>
           /\ db = db0
           /\ log = <<Msg("No articles to write.")>>
              \/ (Len(log) = 2 /\ log[2] = Msg("No articles to write."))

\* C6: a second process that loads the article set the previous process
\* committed inserts no further row.
C6_SecondRunInsertsNothing ==
    (pc = "done" /\ Committed /\ prevArticles # <<>>
        /\ articles = prevArticles)
        => db.rows = db0.rows

\* N of C7: the batch was committed into an empty table without a failure.
LoadedIntoEmpty ==
    /\ pc = "done"
    /\ Committed
    /\ failedAt = "none"
    /\ db0.rows = {}

DistinctUrls ==
    \A i, j \in 1..Len(articles) :
        i # j => articles[i].url # articles[j].url

DistinctIds ==
    \A i, j \in 1..Len(articles) :
        i # j => article_id(hashfn, articles[i].url)
                    # article_id(hashfn, articles[j].url)

\* Exactly one row per article, and the count printed is the batch's length.
AllPersisted ==
    /\ Cardinality(db.rows) = Len(articles)
    /\ \A i \in 1..Len(articles) :
           \E r \in db.rows :
               r.url = articles[i].url /\ r.title = articles[i].title
    /\ log[Len(log)] = [msg |-> "Successfully inserted articles",
                        count |-> Len(articles)]

\* C7 as stated: N well-formed articles with pairwise distinct URLs, loaded
\* into an empty table without failure, leave exactly N rows and report N.
C7_DistinctUrlsAllPersisted ==
    (LoadedIntoEmpty /\ DistinctUrls) => AllPersisted

\* C7 as amended: N well-formed articles whose derived ids are pairwise
\* distinct, loaded into an empty table without failure, leave exactly N rows
\* and report N.
C7_DistinctIdsAllPersisted ==
    (LoadedIntoEmpty /\ DistinctIds) => AllPersisted

C7_Witness ==
    /\ LoadedIntoEmpty
    /\ DistinctIds
    /\ Len(articles) = 2
    /\ Cardinality(db.rows) = 2

\* C8: the stored id is a function of the url: rows with the same url have
\* the same id, whichever batch or run stored them.
C8_IdFunctionOfUrl ==
    \A r1, r2 \in db.rows \cup txn.rows :
        r1.url = r2.url => r1.id = r2.id

SuccessPath ==
    <<"IDLE", "CONNECTED", "TABLE_ENSURED", "ROWS_QUEUED", "COMMITTED",
      "CLOSED">>

\* A failure in any state before COMMITTED goes to ROLLED_BACK, then CLOSED.
FailurePaths ==
    {SubSeq(SuccessPath, 1, n) \o <<"ROLLED_BACK", "CLOSED">> : n \in 1..4}

\* C9: a call with a non-empty input ends having gone through the success
\* path or through a prefix of it followed by ROLLED_BACK, CLOSED.
C9_LoaderStateMachine ==
    (pc = "done" /\ entry = "call" /\ articles # <<>>)
        => path \in {SuccessPath} \cup FailurePaths

UniqueIds(t) == \A r1, r2 \in t.rows : r1.id = r2.id => r1 = r2

\* The first record of the batch with the id of records[i].
FirstWithId(i) ==
    records[CHOOSE j \in 1..i :
                /\ records[j].id = records[i].id
                /\ \A k \in 1..(j - 1) : records[k].id # records[i].id]

\* After a commit every record's id has one row: the row stored before the
\* call if there was one, else the row of the batch's first record with it.
FirstWriteWins ==
    (pc = "done" /\ Committed) =>
        \A i \in 1..Len(records) :
            \E r \in db.rows :
                /\ r.id = records[i].id
                /\ IF \E o \in db0.rows : o.id = r.id
                   THEN r \in db0.rows
                   ELSE r = Row(FirstWithId(i), run)

\* C10: the table never holds two rows with one id, a stored row is never
\* changed or removed, and a record whose id is taken is dropped.
C10_RowsImmutable ==
    /\ [](UniqueIds(db) /\ UniqueIds(txn) /\ FirstWriteWins)
    /\ [][\A r \in db.rows : r \in db'.rows]_vars

\* A committed load held a record whose id was stored by an earlier load with
\* another title, and the stored row is as it was.
C10_Witness ==
    /\ pc = "done"
    /\ Committed
    /\ \E i \in 1..Len(records) :
           \E o \in db0.rows :
               /\ o.id = records[i].id
               /\ o.title # records[i].title
               /\ o \in db.rows

====
